---- MODULE Spec2Model ----
(***************************************************************************)
(* A model of psd-to-mp4-batch (src/run.js): the template-binding pipeline *)
(* of main(), the pre-pass script of extractBoundsAndValidate as the host  *)
(* runs it, the parsers of the two reports, the per-row compiler           *)
(* generateJSX and the execution driver executePhotoshopScript.            *)
(*                                                                         *)
(* Strings are sequences of one-character strings.  A few fixed pieces of  *)
(* text that no data can spell (directory names, the report keywords, the  *)
(* fixed parts of a path) are single tokens of such a sequence.            *)
(* Time is counted in units of 300 seconds.                                *)
(***************************************************************************)
EXTENDS Integers, Sequences, FiniteSets, TLC

\* ------------------------------------------------------------ bounds
\* Most rows a CSV file of the model holds.
MaxRows == 2
\* The clock of a wait on the host stops counting here.
MaxTime == 3
\* Most lines of a bounds report handed to parseBoundsFile on its own.
MaxLines == 2

\* -------------------------------------------------------- characters
QUOTE == "\""
BACKSLASH == "\\"
CR == "\r"
LF == "\n"
TAB == "\t"
\* A file that is not there, and the value undefined: no data spells them.
NoFile == <<"NoFile">>
undefined == <<"undefined">>

Range(s) == {s[k] : k \in 1..Len(s)}

Upper == <<"A","B","C","D","E","F","G","H","I","J","K","L","M",
           "N","O","P","Q","R","S","T","U","V","W","X","Y","Z">>
Lower == <<"a","b","c","d","e","f","g","h","i","j","k","l","m",
           "n","o","p","q","r","s","t","u","v","w","x","y","z">>

\* String.prototype.toLowerCase
ToLowerCase(s) ==
  [k \in 1..Len(s) |->
     IF \E j \in 1..26 : Upper[j] = s[k]
     THEN Lower[CHOOSE j \in 1..26 : Upper[j] = s[k]]
     ELSE s[k]]

\* String.prototype.startsWith
StartsWith(s, p) == Len(s) >= Len(p) /\ SubSeq(s, 1, Len(p)) = p

\* String.prototype.includes / indexOf(sub) !== -1
Includes(s, sub) ==
  \E k \in 0..(Len(s) - Len(sub)) : SubSeq(s, k + 1, k + Len(sub)) = sub

\* String.prototype.slice(n)
Slice(s, n) == SubSeq(s, n + 1, Len(s))

\* s.replace(/\\/g, "/")
ReplaceBackslashes(s) ==
  [k \in 1..Len(s) |-> IF s[k] = BACKSLASH THEN "/" ELSE s[k]]

\* Array.prototype.join
RECURSIVE Join(_, _)
Join(list, sep) ==
  IF list = <<>> THEN <<>>
  ELSE IF Len(list) = 1 THEN list[1]
  ELSE list[1] \o sep \o Join(Tail(list), sep)

\* String.prototype.split(sep), sep one character
RECURSIVE SplitAt(_, _, _)
SplitAt(s, seps, cur) ==
  IF s = <<>> THEN <<cur>>
  ELSE IF Head(s) \in seps THEN <<cur>> \o SplitAt(Tail(s), seps, <<>>)
  ELSE SplitAt(Tail(s), seps, Append(cur, Head(s)))

Split(s, sep) == SplitAt(s, {sep}, <<>>)

\* String.prototype.split(/\r?\n|\r/g): CR LF is one break, a lone CR or LF is one
RECURSIVE SplitLinesFrom(_, _)
SplitLinesFrom(s, cur) ==
  IF s = <<>> THEN <<cur>>
  ELSE IF Head(s) = CR /\ Len(s) >= 2 /\ s[2] = LF
       THEN <<cur>> \o SplitLinesFrom(Tail(Tail(s)), <<>>)
  ELSE IF Head(s) \in {CR, LF}
       THEN <<cur>> \o SplitLinesFrom(Tail(s), <<>>)
  ELSE SplitLinesFrom(Tail(s), Append(cur, Head(s)))

SplitLines(s) == SplitLinesFrom(s, <<>>)

WhiteSpace == {" ", TAB, CR, LF}

RECURSIVE TrimStart(_)
TrimStart(s) ==
  IF s # <<>> /\ Head(s) \in WhiteSpace THEN TrimStart(Tail(s)) ELSE s

RECURSIVE TrimEnd(_)
TrimEnd(s) ==
  IF s # <<>> /\ s[Len(s)] \in WhiteSpace
  THEN TrimEnd(SubSeq(s, 1, Len(s) - 1)) ELSE s

\* String.prototype.trim
Trim(s) == TrimEnd(TrimStart(s))

\* ------------------------------------------------------------- numbers
Digits == <<"0","1","2","3","4","5","6","7","8","9">>

IsDigit(c) == \E d \in 1..10 : Digits[d] = c

DigitValue(c) == (CHOOSE d \in 1..10 : Digits[d] = c) - 1

\* The longest prefix of digits of s.
RECURSIVE DigitPrefix(_)
DigitPrefix(s) ==
  IF s # <<>> /\ IsDigit(Head(s)) THEN <<Head(s)>> \o DigitPrefix(Tail(s))
  ELSE <<>>

RECURSIVE DigitsToNat(_, _)
DigitsToNat(ds, acc) ==
  IF ds = <<>> THEN acc
  ELSE DigitsToNat(Tail(ds), acc * 10 + DigitValue(Head(ds)))

\* A parseInt result: NaN, or the number n.
NaN == [nan |-> TRUE, n |-> 0]

\* parseInt(s, 10): leading white space, a sign, then the longest run of digits;
\* whatever follows the digits is ignored; NaN when there is no digit.
ParseInt(s) ==
  IF s = undefined THEN NaN
  ELSE
  LET t == TrimStart(s)
      neg == t # <<>> /\ Head(t) = "-"
      u == IF t # <<>> /\ Head(t) \in {"-", "+"} THEN Tail(t) ELSE t
      ds == DigitPrefix(u)
  IN IF ds = <<>> THEN NaN
     ELSE [nan |-> FALSE,
           n |-> IF neg THEN 0 - DigitsToNat(ds, 0) ELSE DigitsToNat(ds, 0)]

\* Number.isInteger of a parseInt result: every number parseInt gives is whole
IsInteger(v) == ~v.nan

RECURSIVE NatToString(_)
NatToString(n) ==
  IF n < 10 THEN <<Digits[n + 1]>>
  ELSE NatToString(n \div 10) \o <<Digits[(n % 10) + 1]>>

\* A host number is kept in half pixels; its text is the host's Number-to-String.
NumberToString(h) ==
  LET a == IF h < 0 THEN 0 - h ELSE h
      body == NatToString(a \div 2) \o (IF a % 2 = 1 THEN <<".", "5">> ELSE <<>>)
  IN IF h < 0 THEN <<"-">> \o body ELSE body


\* -------------------------------------------------------------- names
S_image == <<"i","m","a","g","e">>
S_txt_ == <<"t","x","t","_">>
K_id == <<"i","d">>
K_product_id == <<"p","r","o","d","u","c","t","_","i","d">>
K_output == <<"o","u","t","p","u","t">>
K_templatePath == <<"_","t","e","m","p","l","a","t","e","P","a","t","h">>
K_Image == <<"I","m","a","g","e">>
K_txt_Image == <<"t","x","t","_","I","m","a","g","e">>
K_txt_T == <<"t","x","t","_","T">>
K_T == <<"T">>
K_backslash_T == <<BACKSLASH, "T">>
K_T_quote == <<"T", QUOTE>>
K_constructor == <<"c","o","n","s","t","r","u","c","t","o","r">>
S_valueOf == <<"v","a","l","u","e","O","f">>
S_toString == <<"t","o","S","t","r","i","n","g">>
S_Group == <<"G","r","o","u","p">>

\* The report keywords, the fixed text of a report line and of a path.
S_MISSING_LAYERS == <<"MISSING_LAYERS:">>
S_ALL_LAYERS_FOUND == <<"ALL_LAYERS_FOUND">>
S_DEBUG_HEADER == <<"=== DEBUG: All layers found ===", CR, LF>>
S_png == <<".png">>
S_psd == <<".psd">>
S_up == <<"..", "/">>

\* --------------------------------------------------------------- rows
\* A row is a JS object: its entries <<key, value>> in insertion order.
HasKey(row, key) == \E k \in 1..Len(row) : row[k][1] = key

\* row[key]
Get(row, key) ==
  IF HasKey(row, key)
  THEN row[CHOOSE k \in 1..Len(row) : row[k][1] = key][2]
  ELSE undefined

\* row[key] = value: in place when the key is there, appended when it is not
Put(row, key, value) ==
  IF HasKey(row, key)
  THEN [k \in 1..Len(row) |-> IF row[k][1] = key THEN <<key, value>> ELSE row[k]]
  ELSE Append(row, <<key, value>>)

\* A value in a condition: undefined and "" are falsy.
Truthy(v) == v # undefined /\ v # <<>>

\* ------------------------------------------------- required slot names
\* The keys getRequiredLayersFromData skips.
RequiredSkipsKey(key) == key \in {K_id, K_product_id, K_templatePath, K_output}

\* The slot name getRequiredLayersFromData adds for a key it does not skip.
RequiredLayerOf(key) ==
  IF Includes(ToLowerCase(key), S_image) THEN key
  ELSE IF StartsWith(key, S_txt_) THEN Slice(key, 4)
  ELSE key

\* Set.prototype.add on a Set kept as the sequence of its insertion order
SetAdd(set, x) == IF x \in Range(set) THEN set ELSE Append(set, x)

RECURSIVE AddRowLayers(_, _)
AddRowLayers(set, entries) ==
  IF entries = <<>> THEN set
  ELSE LET key == Head(entries)[1]
       IN AddRowLayers(IF RequiredSkipsKey(key) THEN set
                       ELSE SetAdd(set, RequiredLayerOf(key)),
                       Tail(entries))

RECURSIVE AddRowsLayers(_, _)
AddRowsLayers(set, rs) ==
  IF rs = <<>> THEN set
  ELSE AddRowsLayers(AddRowLayers(set, Head(rs)), Tail(rs))

\* Array.from(requiredLayers)
getRequiredLayersFromData(rs) == AddRowsLayers(<<>>, rs)

\* ---------------------------------------------- host string literals
\* What the host's script language makes of the character after a backslash.
Unescape(c) ==
  CASE c = "n" -> LF
    [] c = "r" -> CR
    [] c = "t" -> TAB
    [] c = "b" -> "<BS>"
    [] c = "f" -> "<FF>"
    [] c = "v" -> "<VT>"
    [] c = "0" -> "<NUL>"
    [] OTHER -> c

\* The host reading the text the generator put between two double quotes:
\* ok says the literal ends at the generator's closing quote (no quote or line
\* break inside it, no backslash left to escape the closing quote), value is
\* the string it then denotes.
RECURSIVE DecodeLiteral(_)
DecodeLiteral(body) ==
  IF body = <<>> THEN [ok |-> TRUE, value |-> <<>>]
  ELSE IF Head(body) \in {QUOTE, CR, LF} THEN [ok |-> FALSE, value |-> <<>>]
  ELSE IF Head(body) = BACKSLASH
       THEN IF Len(body) = 1 \/ body[2] \in {CR, LF}
            THEN [ok |-> FALSE, value |-> <<>>]
            ELSE LET rest == DecodeLiteral(Slice(body, 2))
                 IN [ok |-> rest.ok, value |-> <<Unescape(body[2])>> \o rest.value]
  ELSE LET rest == DecodeLiteral(Tail(body))
       IN [ok |-> rest.ok, value |-> <<Head(body)>> \o rest.value]

\* `"${text}"`: the text goes between the quotes as it is.
EmbedLiteral(text) == text

\* ----------------------------------------------------------- template
\* A layer: [name, typename, kind, bounds, layers]; bounds are <<left, top,
\* right, bottom>> in half pixels; layers are a LayerSet's children and, for a
\* smart object, the layers of the document it embeds.
ArtLayer(name, kind, w, h) ==
  [name |-> name, typename |-> "ArtLayer", kind |-> kind,
   bounds |-> <<0, 0, w, h>>, layers |-> <<>>]

SmartObject(name, w, h, contents) ==
  [name |-> name, typename |-> "ArtLayer", kind |-> "SMARTOBJECT",
   bounds |-> <<0, 0, w, h>>, layers |-> contents]

LayerSet(name, children) ==
  [name |-> name, typename |-> "LayerSet", kind |-> "undefined",
   bounds |-> <<0, 0, 0, 0>>, layers |-> children]

\* collectImageBoundsAndValidate's order of visit: depth first, a LayerSet
\* before its children, siblings in document order.
RECURSIVE VisitedLayers(_)
VisitedLayers(layers) ==
  IF layers = <<>> THEN <<>>
  ELSE LET layer == Head(layers)
       IN <<layer>>
          \o (IF layer.typename = "LayerSet" THEN VisitedLayers(layer.layers) ELSE <<>>)
          \o VisitedLayers(Tail(layers))

\* boundsMsg: one line per visited layer whose lower-cased name holds "image"
\* and whose kind is SMARTOBJECT.
RECURSIVE BoundsMsg(_)
BoundsMsg(visited) ==
  IF visited = <<>> THEN <<>>
  ELSE LET layer == Head(visited)
           b == layer.bounds
           line == layer.name \o <<"=">> \o NumberToString(b[3] - b[1])
                   \o <<",">> \o NumberToString(b[4] - b[2]) \o <<CR>>
       IN (IF Includes(ToLowerCase(layer.name), S_image) /\ layer.kind = "SMARTOBJECT"
           THEN line ELSE <<>>)
          \o BoundsMsg(Tail(visited))

RECURSIVE DebugMsg(_)
DebugMsg(visited) ==
  IF visited = <<>> THEN <<>>
  ELSE <<"Layer: '">> \o Head(visited).name \o <<"'", CR, LF>>
       \o DebugMsg(Tail(visited))

\* foundLayers = {} is a plain object: what every object inherits is found in it
\* whether or not a layer of that name was visited.
ObjectPrototypeProperties == {K_constructor, S_valueOf, S_toString}

\* foundLayers[name], as a condition
FoundLayer(visited, name) ==
  \/ \E k \in 1..Len(visited) : visited[k].name = name
  \/ name \in ObjectPrototypeProperties

\* The missingLayers loop over the script's requiredLayers array.
MissingLayers(visited, required) ==
  SelectSeq(required, LAMBDA name : ~FoundLayer(visited, name))

ValidationMsg(missing) ==
  IF Len(missing) > 0
  THEN S_MISSING_LAYERS \o Join(missing, <<",">>) \o <<CR>>
  ELSE S_ALL_LAYERS_FOUND \o <<CR>>

\* The pre-pass script extractBoundsAndValidate writes: the template text with
\* its holes filled, here the holes alone.
PrePassJsx(requiredLayers) ==
  [requiredLayers |-> [k \in 1..Len(requiredLayers) |-> EmbedLiteral(requiredLayers[k])]]

\* Whether the host can read the script at all.
JsxWellFormed(jsx) ==
  \A k \in 1..Len(jsx.requiredLayers) : DecodeLiteral(jsx.requiredLayers[k]).ok

\* The two reports the host writes when it runs the pre-pass on a template.
RunPrePass(jsx, tpl) ==
  LET visited == VisitedLayers(tpl)
      required == [k \in 1..Len(jsx.requiredLayers) |->
                     DecodeLiteral(jsx.requiredLayers[k]).value]
  IN [boundsFile |-> BoundsMsg(visited),
      validationFile |-> ValidationMsg(MissingLayers(visited, required))
                         \o S_DEBUG_HEADER \o DebugMsg(visited)]

\* ------------------------------------------------------ report parsers
\* validateLayersFromFile without the MISSING_LAYERS branch: any result line passes.
validateLayersFromFile_anyResult(content) ==
  IF content = NoFile THEN FALSE
  ELSE \E k \in 1..Len(SplitLines(content)) :
         \/ StartsWith(SplitLines(content)[k], S_MISSING_LAYERS)
         \/ StartsWith(SplitLines(content)[k], S_ALL_LAYERS_FOUND)

\* validateLayersFromFile: false when the file cannot be read, holds no result
\* line, or its first result line declares missing layers.
validateLayersFromFile(content) ==
  IF content = NoFile THEN FALSE
  ELSE LET lines == SplitLines(content)
           hits == SelectSeq(lines, LAMBDA l : \/ StartsWith(l, S_MISSING_LAYERS)
                                               \/ StartsWith(l, S_ALL_LAYERS_FOUND))
       IN IF hits = <<>> THEN FALSE
          ELSE ~StartsWith(hits[1], S_MISSING_LAYERS)

\* One line of parseBoundsFile's loop: the map with the line's entry when both
\* numbers parse to integers above 0, the map as it was otherwise.
ParseBoundsLine(result, line) ==
  LET kv == Split(line, "=")
      key == kv[1]
      value == IF Len(kv) >= 2 THEN kv[2] ELSE undefined
  IN IF ~Truthy(key) \/ ~Truthy(value) THEN result
     ELSE LET nums == Split(value, ",")
              w == ParseInt(nums[1])
              h == ParseInt(IF Len(nums) >= 2 THEN nums[2] ELSE undefined)
          IN IF IsInteger(w) /\ IsInteger(h) /\ w.n > 0 /\ h.n > 0
             THEN [n \in DOMAIN result \cup {key} |->
                     IF n = key THEN [width |-> w.n, height |-> h.n] ELSE result[n]]
             ELSE result

RECURSIVE ParseBoundsLines(_, _)
ParseBoundsLines(result, lines) ==
  IF lines = <<>> THEN result
  ELSE ParseBoundsLines(ParseBoundsLine(result, Head(lines)), Tail(lines))

\* parseBoundsFile on the file's text: a map from slot name to {width, height}
parseBoundsFile(content) ==
  LET lines == SelectSeq([k \in 1..Len(SplitLines(content)) |-> Trim(SplitLines(content)[k])],
                         LAMBDA l : l # <<>>)
  IN ParseBoundsLines(<<>>, lines)


\* -------------------------------------------------------------- paths
\* Paths are taken from the directory the tool is run in, which holds the image
\* root and the temp directory side by side.
IMAGE_DIR == <<"images">>
TEMP_DIR == <<"temp">>
RESIZED_IMAGE_DIR == TEMP_DIR \o <<"/", "resized">>
TEMPLATE_NAME == <<"template">>
TEMPLATE_PATH == <<"template.psd">>

\* path.join(dir, name)
PathJoin(dir, name) == dir \o <<"/">> \o name

\* path.resolve(IMAGE_DIR, value): the image root itself for "", a path that
\* climbs out of the image root taken from the run directory, any other value
\* taken under the image root
PathResolve(dir, value) ==
  IF value = <<>> THEN dir
  ELSE IF StartsWith(value, S_up) THEN Slice(value, 2)
  ELSE PathJoin(dir, value)

\* path.relative(IMAGE_DIR, to) for a path under the temp directory
PathRelative(dir, to) == S_up \o to

\* The row's output directory: the override, else the row's output column under
\* the image root, else none (undefined).
OutputDir(row, out) ==
  IF Truthy(out) THEN out
  ELSE IF Truthy(Get(row, K_output)) THEN PathJoin(IMAGE_DIR, Get(row, K_output))
  ELSE undefined

\* fs.existsSync of a path under the image root
ExistsSync(path, files) == path = IMAGE_DIR \/ path \in {PathJoin(IMAGE_DIR, f) : f \in files}

\* validateAllPaths, the image check of one row: an image column with a value
\* whose file is not there.
RowMissingImages(row, files) ==
  {k \in 1..Len(row) :
     /\ Includes(ToLowerCase(row[k][1]), S_image)
     /\ Truthy(row[k][2])
     /\ ~ExistsSync(PathResolve(IMAGE_DIR, row[k][2]), files)}

\* validateAllPaths without the image check: only the output directories count.
validateAllPaths_outputsOnly(rs, out, files) ==
  \A r \in 1..Len(rs) : OutputDir(rs[r], out) # undefined

\* validateAllPaths: a row without an output directory is an error and its images
\* are not looked at; a missing image of any other row is an error.
validateAllPaths(rs, out, files) ==
  /\ \A r \in 1..Len(rs) : OutputDir(rs[r], out) # undefined
  /\ \A r \in 1..Len(rs) : RowMissingImages(rs[r], files) = {}

\* The directories validateAllPaths and the row loop make sure exist.
EnsuredDirs(rs, out) ==
  {OutputDir(rs[r], out) : r \in {q \in 1..Len(rs) : OutputDir(rs[q], out) # undefined}}

\* ------------------------------------------------------- generateJSX
Instr(op, slot, arg, alert, extra) ==
  [op |-> op, slot |-> slot, arg |-> arg, alert |-> alert, extra |-> extra]

\* The keys generateJSX's loop skips.
CompilerSkipsKey(key) == key \in {K_id, K_product_id, K_templatePath, K_output}

\* The binding generateJSX's loop gives a key it does not skip.
BindingKind(key) ==
  IF Includes(ToLowerCase(key), S_image) THEN "ReplaceImage"
  ELSE IF StartsWith(key, S_txt_) THEN "SetNestedText"
  ELSE "SetDirectText"

\* The slot name the instruction of a key hands to findLayerByName.
BindingTarget(key) ==
  IF BindingKind(key) = "SetNestedText" THEN Slice(key, 4) ELSE key

\* The instruction group of one column: the slot name, the value (for an image the
\* resolved path with its backslashes turned) and the name in the alert, each put
\* between double quotes as it is.
ColumnInstr(key, value) ==
  LET kind == BindingKind(key)
      target == BindingTarget(key)
      arg == IF kind = "ReplaceImage"
             THEN ReplaceBackslashes(PathResolve(IMAGE_DIR, value))
             ELSE value
  IN Instr(kind, EmbedLiteral(target), EmbedLiteral(arg), EmbedLiteral(target), <<>>)

RECURSIVE ColumnInstrs(_)
ColumnInstrs(entries) ==
  IF entries = <<>> THEN <<>>
  ELSE (IF CompilerSkipsKey(Head(entries)[1]) THEN <<>>
        ELSE <<ColumnInstr(Head(entries)[1], Head(entries)[2])>>)
       \o ColumnInstrs(Tail(entries))

\* SizeDirectives with the custom size emitted when either number is given.
SizeDirectives_eitherGiven(videoSize, videoWidth, videoHeight) ==
  <<<<"sizeSelector", EmbedLiteral(videoSize)>>>>
  \o (IF Truthy(videoWidth) \/ Truthy(videoHeight)
      THEN << <<"sizeSelector", <<"customSize">>>>,
              <<"width", EmbedLiteral(videoWidth)>>,
              <<"height", EmbedLiteral(videoHeight)>> >>
      ELSE <<>>)

\* The size directives of the export instruction, in the order they are emitted.
SizeDirectives(videoSize, videoWidth, videoHeight) ==
  <<<<"sizeSelector", EmbedLiteral(videoSize)>>>>
  \o (IF Truthy(videoWidth) /\ Truthy(videoHeight)
      THEN << <<"sizeSelector", <<"customSize">>>>,
              <<"width", EmbedLiteral(videoWidth)>>,
              <<"height", EmbedLiteral(videoHeight)>> >>
      ELSE <<>>)

\* The saved document of a row: outputDir/templateName_productId.psd
SavedDocPath(outputDir, templateName, productId) ==
  ReplaceBackslashes(outputDir) \o <<"/">> \o templateName \o <<"_">> \o productId \o S_psd

\* generateJSX: open, the helper, one group per column in the row's order, save,
\* export, close.
generateJSX(dataRow, templateName, videoSize, videoWidth, videoHeight, outputDir) ==
  LET productId == Get(dataRow, K_product_id)
      templatePath == ReplaceBackslashes(Get(dataRow, K_templatePath))
  IN << Instr("open", <<>>, EmbedLiteral(templatePath), <<>>, <<>>),
        Instr("helper", <<>>, <<>>, <<>>, <<>>) >>
     \o ColumnInstrs(dataRow)
     \o << Instr("SaveAs", <<>>,
                 EmbedLiteral(SavedDocPath(outputDir, templateName, productId)),
                 EmbedLiteral(productId), <<>>),
           Instr("ExportVideo", <<>>, EmbedLiteral(ReplaceBackslashes(outputDir)),
                 EmbedLiteral(productId),
                 SizeDirectives(videoSize, videoWidth, videoHeight)),
           Instr("close", <<>>, <<"SAVECHANGES">>, <<>>, <<>>) >>

\* Whether the host can read an instruction: each of its literals closes where the
\* generator closed it.
InstrWellFormed(ins) ==
  /\ DecodeLiteral(ins.slot).ok
  /\ DecodeLiteral(ins.arg).ok
  /\ DecodeLiteral(ins.alert).ok
  /\ \A k \in 1..Len(ins.extra) : DecodeLiteral(ins.extra[k][2]).ok

ScriptWellFormed(script) == \A k \in 1..Len(script) : InstrWellFormed(script[k])


\* ------------------------------------------------------------ timeouts
\* executePhotoshopScript's default timeoutSeconds (300 s) and main's
\* SCRIPT_TIMEOUT, here the caller's --timeout 600, in units of 300 s.
DEFAULT_TIMEOUT == 1
SCRIPT_TIMEOUT == 2

\* The option extractBoundsAndValidate's script closes the template with.
PrePassCloseOption == "SAVECHANGES"

\* -------------------------------------------------------------- state
VARIABLES
  platform,       \* os.platform()
  args,           \* the options: out, size, width, height
  template,       \* the template's layers
  csvFile,        \* the rows of the CSV file
  imageFiles,     \* the files under the image root
  rows,           \* main's rows, as read and as rewritten
  pc,             \* where main is
  i,              \* the row the loop is at
  exitCode,       \* the process's exit status, -1 while it runs
  log,            \* what was printed
  elapsed,        \* time spent in the current wait on the host, 0 outside one
  prePassJsx,     \* the pre-pass script handed to the host
  boundsFile,     \* the bounds report
  validationFile, \* the validation report
  templateSaved,  \* the host wrote the template file back
  bounds,         \* the parsed BoundsMap
  scriptParts,    \* one compiled script per row so far
  scriptFile,     \* the batch script as written, <<>> before
  scriptWritten,  \* fs.writeFile(SCRIPT_PATH) happened
  tempCopies,     \* template copies in the temp directory: path -> row
  resizedFiles,   \* derived assets: path -> [row, source, dim]
  outDirs,        \* output directories made sure of
  batchRuns,      \* times the host ran the batch script to its end
  host            \* what the host did with the batch script

vars == <<platform, args, template, csvFile, imageFiles, rows, pc, i, exitCode,
          log, elapsed, prePassJsx, boundsFile, validationFile, templateSaved,
          bounds, scriptParts, scriptFile, scriptWritten, tempCopies,
          resizedFiles, outDirs, batchRuns, host>>

inputs == <<platform, args, template, csvFile, imageFiles>>

\* ------------------------------------------------------------- inputs
V_x == <<"x">>
V_y == <<"y">>
V_z == <<"z">>
V_S == <<"S">>
V_inch == <<"5", QUOTE>>
P_1 == <<"1">>
P_2 == <<"2">>
O_a == <<"a">>
O_b == <<"b">>

T_flat ==
  << ArtLayer(K_Image, "SMARTOBJECT", 16, 12), ArtLayer(K_T, "TEXT", 8, 2) >>
T_nested ==
  << LayerSet(S_Group,
       << ArtLayer(K_Image, "SMARTOBJECT", 17, 12),
          SmartObject(K_T, 8, 2,
            << LayerSet(S_Group, <<ArtLayer(<<"A">>, "TEXT", 4, 1)>>),
               ArtLayer(<<"B">>, "TEXT", 4, 1),
               ArtLayer(<<"C">>, "TEXT", 4, 1) >>) >>) >>
T_plain ==
  << ArtLayer(K_Image, "NORMAL", 16, 12), ArtLayer(K_T, "TEXT", 8, 2) >>
T_noT ==
  << ArtLayer(K_Image, "SMARTOBJECT", 0, 0), LayerSet(S_Group, <<>>) >>
T_textless ==
  << ArtLayer(K_Image, "SMARTOBJECT", 16, 12),
     SmartObject(K_T, 8, 2, << LayerSet(S_Group, <<>>),
                               ArtLayer(<<"A">>, "NORMAL", 4, 1) >>) >>

DefaultArgs == [out |-> undefined, size |-> <<"document">>,
                width |-> undefined, height |-> undefined]

Row(productId, output, cols) ==
  << <<K_product_id, productId>>, <<K_output, output>> >> \o cols

\* Column names of every kind, one or two to a header, one row; a value is the
\* name of a file under the image root (one of them has a double quote in it)
\* or empty.
NameKeys == {K_Image, K_txt_Image, K_txt_T, K_T, K_backslash_T, K_T_quote,
             K_constructor, K_templatePath}

NameInputs ==
  {[platform |-> pf, args |-> DefaultArgs, template |-> tpl,
    csvFile |-> <<Row(P_1, O_a, hd)>>, imageFiles |-> {V_x, V_inch}] :
     pf \in {"darwin", "win32", "linux"},
     tpl \in {T_flat, T_nested, T_plain, T_noT, T_textless},
     hd \in {<<<<k, v>>>> : k \in NameKeys, v \in {V_x, <<>>, V_inch}}
            \cup {<< <<kk[1], V_x>>, <<kk[2], V_x>> >> :
                    kk \in {p \in NameKeys \X NameKeys : p[1] # p[2]}}}

\* Rows of one header: an image column and a nested-text column; one row has no
\* output column value.
DataRows ==
  {Row(po[1], po[2], << <<K_Image, c[1]>>, <<K_txt_T, c[2]>> >>) :
     po \in {<<P_1, O_a>>, <<P_1, O_b>>, <<P_2, O_a>>},
     c \in {<<V_x, V_S>>, <<V_z, V_S>>, <<V_z, V_inch>>, <<V_y, V_S>>}}
  \cup {Row(P_1, <<>>, << <<K_Image, V_x>>, <<K_txt_T, V_S>> >>)}

RECURSIVE SeqsUpTo(_, _)
SeqsUpTo(S, n) ==
  IF n = 0 THEN {<<>>}
  ELSE LET shorter == SeqsUpTo(S, n - 1)
       IN shorter \cup {Append(q, x) : q \in {t \in shorter : Len(t) = n - 1}, x \in S}

\* Batches of up to MaxRows rows: with and without the output override, on a
\* template with a smart-object image slot and on one without.
RowInputs ==
  {[platform |-> "darwin", args |-> [DefaultArgs EXCEPT !.out = ot[1]],
    template |-> ot[2], csvFile |-> rs, imageFiles |-> {V_x, V_z}] :
     ot \in {<<undefined, T_flat>>, <<<<"out">>, T_flat>>, <<undefined, T_plain>>},
     rs \in SeqsUpTo(DataRows, MaxRows)}

\* The export options, one row.
ConfigInputs ==
  {[platform |-> pf,
    args |-> [out |-> undefined, size |-> sz, width |-> w, height |-> h],
    template |-> T_flat,
    csvFile |-> <<Row(P_1, O_a, << <<K_Image, V_x>>, <<K_T, V_S>> >>)>>,
    imageFiles |-> {V_x}] :
     pf \in {"darwin", "win32"},
     sz \in {<<"document">>, <<"HDVHDTV720p">>},
     w \in {undefined, <<"6","4","0">>},
     h \in {undefined, <<"3","6","0">>}}

Inputs == NameInputs \cup RowInputs \cup ConfigInputs

\* The host before it is handed the script.
HostIdle ==
  [fail |-> 0, trace |-> <<>>, opened |-> <<>>, files |-> <<>>, aborted |-> FALSE]

\* The state after the options are read and the temp directory is made.
Init ==
  /\ \E in \in Inputs :
       /\ platform = in.platform
       /\ args = in.args
       /\ template = in.template
       /\ csvFile = in.csvFile
       /\ imageFiles = in.imageFiles
  /\ rows = <<>>
  /\ pc = "main"
  /\ i = 0
  /\ exitCode = -1
  /\ log = {}
  /\ elapsed = 0
  /\ prePassJsx = [requiredLayers |-> <<>>]
  /\ boundsFile = NoFile
  /\ validationFile = NoFile
  /\ templateSaved = FALSE
  /\ bounds = <<>>
  /\ scriptParts = <<>>
  /\ scriptFile = <<>>
  /\ scriptWritten = FALSE
  /\ tempCopies = <<>>
  /\ resizedFiles = <<>>
  /\ outDirs = {}
  /\ batchRuns = 0
  /\ host = HostIdle

\* ------------------------------------------------------------ messages
M_pathsInvalid == <<"Aborting due to path validation errors">>
M_validation == <<"Error reading validation file">>
M_error == <<"Error">>
M_scriptError == <<"Error running script">>
M_processed == <<"All products processed successfully!">>
M_completed == <<"All tasks completed successfully!">>

MapPut(f, k, v) == [x \in DOMAIN f \cup {k} |-> IF x = k THEN v ELSE f[x]]

\* process.exit(code), or main running to its end (code 0), after printing msgs
Exit(code, msgs) ==
  /\ pc' = "done"
  /\ exitCode' = code
  /\ log' = log \cup msgs

\* --------------------------------------------------------------- main
\* main up to the path validation: the rows are read, validateAllPaths makes
\* sure of the output directories and looks for the images; process.exit(1)
\* when it reports an error.
ValidatePaths ==
  /\ pc = "main"
  /\ rows' = csvFile
  /\ outDirs' = EnsuredDirs(csvFile, args.out)
  /\ IF validateAllPaths(csvFile, args.out, imageFiles)
     THEN pc' = "extract" /\ UNCHANGED <<exitCode, log>>
     ELSE Exit(1, {M_pathsInvalid})
  /\ UNCHANGED <<inputs, host, i, elapsed, prePassJsx, boundsFile, validationFile,
                 templateSaved, bounds, scriptParts, scriptFile, scriptWritten,
                 tempCopies, resizedFiles, batchRuns>>

\* executePhotoshopScript knows two platforms.
Supported == platform \in {"darwin", "win32"}

\* extractBoundsAndValidate: the required names, the script, the launch.  On any
\* other platform the launch rejects at once and main's catch exits with 1.
ExtractBoundsAndValidate ==
  /\ pc = "extract"
  /\ prePassJsx' = PrePassJsx(getRequiredLayersFromData(rows))
  /\ IF Supported
     THEN pc' = "prePassWait" /\ elapsed' = 0 /\ UNCHANGED <<exitCode, log>>
     ELSE Exit(1, {M_error}) /\ UNCHANGED elapsed
  /\ UNCHANGED <<inputs, host, rows, i, boundsFile, validationFile, templateSaved,
                 bounds, scriptParts, scriptFile, scriptWritten, tempCopies,
                 resizedFiles, outDirs, batchRuns>>

\* ------------------------------------------------- the wait on the host
Waiting == pc \in {"prePassWait", "batchWait"}

\* The timeoutSeconds of the call main is waiting in.
TimeoutSeconds == IF pc = "prePassWait" THEN DEFAULT_TIMEOUT ELSE SCRIPT_TIMEOUT

\* The platforms whose invocation carries the timeout: osascript's
\* "with timeout of N seconds"; the cscript invocation carries none.
TimeoutApplies == platform = "darwin"

\* exec's callback with an error: the promise rejects.  In the pre-pass main's
\* catch prints the error and exits with 1; around the batch run the inner catch
\* prints it, main goes on to its last lines and the process ends with 0.
Rejected ==
  IF pc = "prePassWait"
  THEN Exit(1, {M_error})
  ELSE Exit(0, {M_scriptError, M_completed})

\* Time passes while the host has not answered.
HostTick ==
  /\ Waiting
  /\ elapsed < MaxTime
  /\ TimeoutApplies => elapsed < TimeoutSeconds
  /\ elapsed' = elapsed + 1
  /\ UNCHANGED <<inputs, host, rows, pc, i, exitCode, log, prePassJsx, boundsFile,
                 validationFile, templateSaved, bounds, scriptParts, scriptFile,
                 scriptWritten, tempCopies, resizedFiles, outDirs, batchRuns>>

\* The timeout of the invocation runs out.
TimeoutElapses ==
  /\ Waiting
  /\ TimeoutApplies
  /\ elapsed >= TimeoutSeconds
  /\ Rejected
  /\ elapsed' = 0
  /\ UNCHANGED <<inputs, host, rows, i, prePassJsx, boundsFile, validationFile,
                 templateSaved, bounds, scriptParts, scriptFile, scriptWritten,
                 tempCopies, resizedFiles, outDirs, batchRuns>>

\* The host cannot be reached, or gives the script up (it cannot read it).
HostFails ==
  /\ Waiting
  /\ Rejected
  /\ elapsed' = 0
  /\ UNCHANGED <<inputs, host, rows, i, prePassJsx, boundsFile, validationFile,
                 templateSaved, bounds, scriptParts, scriptFile, scriptWritten,
                 tempCopies, resizedFiles, outDirs, batchRuns>>

\* The host runs the pre-pass script to its end: the two reports are written and
\* the template is closed with the script's option; with SAVECHANGES the host
\* writes the file back when it holds the document changed since it was opened.
PrePassCompletes ==
  /\ pc = "prePassWait"
  /\ JsxWellFormed(prePassJsx)
  /\ LET out == RunPrePass(prePassJsx, template)
     IN /\ boundsFile' = out.boundsFile
        /\ validationFile' = out.validationFile
  /\ \E changed \in BOOLEAN :
       templateSaved' = (PrePassCloseOption = "SAVECHANGES" /\ changed)
  /\ pc' = "validate"
  /\ elapsed' = 0
  /\ UNCHANGED <<inputs, host, rows, i, exitCode, log, prePassJsx, bounds,
                 scriptParts, scriptFile, scriptWritten, tempCopies,
                 resizedFiles, outDirs, batchRuns>>

\* main after the pre-pass: process.exit(1) unless validateLayersFromFile says
\* yes, then the bounds are parsed.
ValidateLayers ==
  /\ pc = "validate"
  /\ IF validateLayersFromFile(validationFile)
     THEN /\ bounds' = parseBoundsFile(boundsFile)
          /\ pc' = "rows"
          /\ i' = 1
          /\ UNCHANGED <<exitCode, log>>
     ELSE Exit(1, {M_validation}) /\ UNCHANGED <<bounds, i>>
  /\ UNCHANGED <<inputs, host, rows, elapsed, prePassJsx, boundsFile, validationFile,
                 templateSaved, scriptParts, scriptFile, scriptWritten,
                 tempCopies, resizedFiles, outDirs, batchRuns>>

\* ------------------------------------------------------- the row loop
NewTemplatePath(productId) ==
  PathJoin(TEMP_DIR, TEMPLATE_NAME \o <<"_">> \o productId \o S_psd)

ResizedImagePath(productId, key) ==
  PathJoin(RESIZED_IMAGE_DIR, productId \o <<"_">> \o key \o S_png)

\* sharp rejects a source that is no image file: here the image root itself.
ResizeThrows(originalImage) == originalImage = IMAGE_DIR

\* The resize loop over the row's entries as they were when it started.  acc holds
\* the row, the derived assets, the warnings and whether the resize threw.
RECURSIVE ResizeImages(_, _, _)
ResizeImages(entries, acc, r) ==
  IF entries = <<>> \/ acc.threw THEN acc
  ELSE LET key == Head(entries)[1]
           value == Head(entries)[2]
           productId == Get(acc.row, K_product_id)
           originalImage == PathResolve(IMAGE_DIR, value)
           resizedImage == ResizedImagePath(productId, key)
           hasDim == key \in DOMAIN bounds
           exists == ExistsSync(originalImage, imageFiles)
       IN IF ~Includes(ToLowerCase(key), S_image)
          THEN ResizeImages(Tail(entries), acc, r)
          ELSE IF hasDim /\ exists
          THEN IF ResizeThrows(originalImage)
               THEN [acc EXCEPT !.threw = TRUE]
               ELSE ResizeImages(Tail(entries),
                      [acc EXCEPT
                         !.row = Put(@, key, PathRelative(IMAGE_DIR, resizedImage)),
                         !.resized = MapPut(@, resizedImage,
                                       [row |-> r, source |-> originalImage,
                                        dim |-> bounds[key]])],
                      r)
          ELSE ResizeImages(Tail(entries),
                 [acc EXCEPT !.log = @ \cup (IF hasDim THEN {}
                                             ELSE {<<"No bounds found", r, key>>})
                                     \cup (IF exists THEN {}
                                           ELSE {<<"Original image not found", r, key>>})],
                 r)

\* One turn of main's loop: the output directory, the template copy, the resizes,
\* the row's script.
ProcessRow ==
  /\ pc = "rows"
  /\ i <= Len(rows)
  /\ LET row == rows[i]
         productId == Get(row, K_product_id)
         outputDir == OutputDir(row, args.out)
         newTemplatePath == NewTemplatePath(productId)
         row1 == Put(row, K_templatePath, newTemplatePath)
         res == ResizeImages(row1, [row |-> row1, resized |-> resizedFiles,
                                    log |-> {}, threw |-> FALSE], i)
     IN IF outputDir = undefined
        THEN /\ Exit(1, {M_error})
             /\ UNCHANGED <<rows, i, scriptParts, tempCopies, resizedFiles, outDirs>>
        ELSE /\ outDirs' = outDirs \cup {outputDir}
             /\ tempCopies' = MapPut(tempCopies, newTemplatePath, i)
             /\ resizedFiles' = res.resized
             /\ rows' = [rows EXCEPT ![i] = res.row]
             /\ IF res.threw
                THEN /\ Exit(1, res.log \cup {M_error})
                     /\ UNCHANGED <<i, scriptParts>>
                ELSE /\ scriptParts' =
                          Append(scriptParts,
                                 generateJSX(res.row, TEMPLATE_NAME, args.size,
                                             args.width, args.height, outputDir))
                     /\ i' = i + 1
                     /\ log' = log \cup res.log
                     /\ UNCHANGED <<pc, exitCode>>
  /\ UNCHANGED <<inputs, host, elapsed, prePassJsx, boundsFile, validationFile,
                 templateSaved, bounds, scriptFile, scriptWritten, batchRuns>>

RECURSIVE Flatten(_)
Flatten(parts) ==
  IF parts = <<>> THEN <<>> ELSE Head(parts) \o Flatten(Tail(parts))

\* FullScript with the join starting one part late.
FullScript_dropsFirstRow(parts) ==
  <<Instr("#target photoshop", <<>>, <<>>, <<>>, <<>>)>>
  \o Flatten(IF parts = <<>> THEN <<>> ELSE Tail(parts))

\* `#target photoshop\n` + scriptParts.join("\n")
FullScript(parts) ==
  <<Instr("#target photoshop", <<>>, <<>>, <<>>, <<>>)>> \o Flatten(parts)

\* After the last row: the script is written and handed to the host.
WriteScript ==
  /\ pc = "rows"
  /\ i > Len(rows)
  /\ scriptFile' = FullScript(scriptParts)
  /\ scriptWritten' = TRUE
  /\ IF Supported
     THEN pc' = "batchWait" /\ elapsed' = 0 /\ UNCHANGED <<exitCode, log>>
     ELSE Exit(0, {M_scriptError, M_completed}) /\ UNCHANGED elapsed
  /\ UNCHANGED <<inputs, host, rows, i, prePassJsx, boundsFile, validationFile,
                 templateSaved, bounds, scriptParts, tempCopies, resizedFiles,
                 outDirs, batchRuns>>

\* ------------------------------------- the host running the batch script
\* findLayerByName of the generated helper: the layers of the given name in the
\* helper's order of search (a layer, then a LayerSet's children, then the next
\* sibling); the helper returns the first, or null when there is none.
FindLayersByName(layers, name) ==
  SelectSeq(VisitedLayers(layers), LAMBDA layer : layer.name = name)

\* The loop of the nested-text instruction over smartDoc.layers: the layers of
\* the embedded document's top level that are of kind TEXT, in document order.
TopLevelTextLayers(smartDocLayers) ==
  SelectSeq(smartDocLayers, LAMBDA lyr : lyr.kind = "TEXT")

\* An edit made to the open document.
DocEdit(op, slot, inner, value) ==
  [op |-> op, slot |-> slot, inner |-> inner, value |-> value]

\* The instruction kinds whose body is wrapped in try..catch with an alert.
Guarded_saveUnguarded(op) ==
  op \in {"ReplaceImage", "SetNestedText", "SetDirectText", "ExportVideo"}

Guarded(op) ==
  op \in {"ReplaceImage", "SetNestedText", "SetDirectText", "SaveAs", "ExportVideo"}

\* What one instruction does when nothing outside the script makes it fail:
\* [result, edits, inner, closed].  result is "ok", "noop", "alert" (the catch
\* block or the warning ran) or "abort" (an uncaught error).
InstrOutcome(ins, tpl) ==
  LET found == FindLayersByName(tpl, DecodeLiteral(ins.slot).value)
      value == DecodeLiteral(ins.arg).value
      out(result, edits, inner, closed) ==
        [result |-> result, edits |-> edits, inner |-> inner, closed |-> closed]
  IN CASE ins.op = "ReplaceImage" ->
            IF found = <<>> \/ found[1].kind # "SMARTOBJECT"
            THEN out("alert", <<>>, <<>>, TRUE)
            ELSE out("ok", <<DocEdit("ReplaceImage", found[1].name, <<>>, value)>>,
                     <<>>, TRUE)
       [] ins.op = "SetNestedText" ->
            IF found = <<>> \/ found[1].kind # "SMARTOBJECT"
            THEN out("alert", <<>>, <<>>, TRUE)
            ELSE LET texts == TopLevelTextLayers(found[1].layers)
                 IN IF texts = <<>>
                    THEN out("alert", <<>>, <<>>, TRUE)
                    ELSE out("ok",
                             <<DocEdit("SetNestedText", found[1].name,
                                       texts[1].name, value)>>,
                             texts[1].name, TRUE)
       [] ins.op = "SetDirectText" ->
            IF found # <<>> /\ found[1].kind = "TEXT"
            THEN out("ok", <<DocEdit("SetDirectText", found[1].name, <<>>, value)>>,
                     <<>>, TRUE)
            ELSE out("noop", <<>>, <<>>, TRUE)
       [] OTHER -> out("ok", <<>>, <<>>, TRUE)

\* One instruction run by the host.  st is the host's state: the files, the open
\* document (its path and content), the row it is in, what it did so far.  An
\* instruction that fails for a reason outside the script (fails) ends in its
\* catch block when it is guarded and ends the script when it is not; a failure
\* inside the nested-text instruction leaves the embedded document open.
RunInstr(st, ins, idx, fails, tpl) ==
  LET o == InstrOutcome(ins, tpl)
      entry(result, inner, closed) ==
        [index |-> idx, row |-> st.row, op |-> ins.op, result |-> result,
         inner |-> inner, closed |-> closed]
      path == DecodeLiteral(ins.arg).value
  IN IF st.aborted THEN st
     ELSE IF fails
     THEN IF Guarded(ins.op)
          THEN [st EXCEPT !.trace = Append(@, entry("alert", <<>>, ins.op # "SetNestedText"))]
          ELSE [st EXCEPT !.trace = Append(@, entry("abort", <<>>, TRUE)),
                          !.aborted = TRUE]
     ELSE CASE ins.op = "open" ->
                 IF path \notin DOMAIN st.files
                 THEN [st EXCEPT !.trace = Append(@, entry("abort", <<>>, TRUE)),
                                 !.aborted = TRUE]
                 ELSE [st EXCEPT
                         !.row = @ + 1,
                         !.doc = path,
                         !.content = st.files[path],
                         !.opened = Append(@, [row |-> st.row + 1, path |-> path,
                                               content |-> st.files[path]]),
                         !.trace = Append(@, [entry("ok", <<>>, TRUE)
                                                EXCEPT !.row = st.row + 1])]
            [] ins.op = "SaveAs" ->
                 [st EXCEPT !.files = MapPut(@, path, st.content),
                            !.trace = Append(@, entry("ok", <<>>, TRUE))]
            [] ins.op = "close" ->
                 [st EXCEPT !.files = MapPut(@, st.doc, st.content),
                            !.doc = NoFile,
                            !.content = <<>>,
                            !.trace = Append(@, entry("ok", <<>>, TRUE))]
            [] OTHER ->
                 [st EXCEPT !.content = @ \o o.edits,
                            !.trace = Append(@, entry(o.result, o.inner, o.closed))]

\* The host running the script from instruction idx on.
RECURSIVE RunScript(_, _, _, _, _)
RunScript(script, idx, st, fail, tpl) ==
  IF idx > Len(script) THEN st
  ELSE RunScript(script, idx + 1, RunInstr(st, script[idx], idx, idx = fail, tpl),
                 fail, tpl)

\* The host handed the batch script: every per-row copy in the temp directory
\* is the template as it is, no document is open.
HostRun(script, copies, fail, tpl) ==
  LET st0 == [files |-> [p \in DOMAIN copies |-> <<>>], doc |-> NoFile,
              content |-> <<>>, row |-> 0, trace |-> <<>>, opened |-> <<>>,
              aborted |-> FALSE]
      end == RunScript(script, 1, st0, fail, tpl)
  IN [fail |-> fail, trace |-> end.trace, opened |-> end.opened,
      files |-> end.files, aborted |-> end.aborted]

\* The host runs the batch script, with at most one instruction failing for a
\* reason of its own.  When the script runs to its end main prints its last
\* lines and the process ends; an uncaught error of the script comes back as an
\* error of the invocation.
BatchCompletes ==
  /\ pc = "batchWait"
  /\ ScriptWellFormed(scriptFile)
  /\ \E fail \in 0..Len(scriptFile) :
       LET run == HostRun(scriptFile, tempCopies, fail, template)
       IN /\ host' = run
          /\ IF run.aborted
             THEN Rejected /\ UNCHANGED batchRuns
             ELSE /\ batchRuns' = batchRuns + 1
                  /\ Exit(0, {M_processed, M_completed})
  /\ elapsed' = 0
  /\ UNCHANGED <<inputs, rows, i, prePassJsx, boundsFile, validationFile,
                 templateSaved, bounds, scriptParts, scriptFile, scriptWritten,
                 tempCopies, resizedFiles, outDirs>>

Next ==
  \/ ValidatePaths
  \/ ExtractBoundsAndValidate
  \/ HostTick
  \/ TimeoutElapses
  \/ HostFails
  \/ PrePassCompletes
  \/ ValidateLayers
  \/ ProcessRow
  \/ WriteScript
  \/ BatchCompletes

Spec == Init /\ [][Next]_vars

\* ============================================================== claims
\* What "a row is touched" leaves behind: a template copy, a derived asset, a
\* compiled row, the batch script, a batch run.
NoRowTouched ==
  /\ DOMAIN tempCopies = {}
  /\ DOMAIN resizedFiles = {}
  /\ scriptParts = <<>>
  /\ ~scriptWritten
  /\ batchRuns = 0
  /\ pc \notin {"rows", "batchWait"}

\* The validation report is there and its first line declares missing slots.
ReportDeclaresMissing ==
  /\ validationFile # NoFile
  /\ StartsWith(validationFile, S_MISSING_LAYERS)

\* C1: whenever the validation report declares a missing slot, no row has been
\* touched (no template copy, no resize, no compiled row, no batch script, no
\* batch run), main is at the validation step or has ended, it has ended with
\* exit status 1, and the step main takes from the validation step is that exit.
C1_FailFastGate ==
  /\ [](ReportDeclaresMissing =>
          /\ NoRowTouched
          /\ pc \in {"validate", "done"}
          /\ pc = "done" => exitCode = 1)
  /\ [][(ReportDeclaresMissing /\ pc = "validate")
          => (pc' = "done" /\ exitCode' = 1)]_vars

C1_Witness ==
  /\ pc = "done"
  /\ ReportDeclaresMissing
  /\ exitCode = 1
  /\ Len(rows) >= 1

\* The slot names of the template, as the depth-first walk meets them.
VisitedNames == {VisitedLayers(template)[k].name : k \in 1..Len(VisitedLayers(template))}

\* The message the claim expects for the rows' required names on the template.
ExpectedValidationMsg ==
  LET R == getRequiredLayersFromData(rows)
      absent == SelectSeq(R, LAMBDA name : name \notin VisitedNames)
  IN IF absent = <<>> THEN S_ALL_LAYERS_FOUND \o <<CR>>
     ELSE S_MISSING_LAYERS \o Join(absent, <<",">>) \o <<CR>>

\* C2: the validation report, once written, starts with ALL_LAYERS_FOUND when
\* every required name is the name of a visited slot, and otherwise with
\* MISSING_LAYERS: and exactly the required names that no visited slot has, in
\* the order of the required names.
C2_ValidationExact ==
  validationFile # NoFile =>
    StartsWith(validationFile, ExpectedValidationMsg \o S_DEBUG_HEADER)

\* C3: a run whose batch execution was rejected ends with a non-zero exit status
\* and without the final success message.
C3_ExecFailureExitsNonZero ==
  (pc = "done" /\ M_scriptError \in log) =>
    (exitCode # 0 /\ M_completed \notin log /\ M_processed \notin log)

\* An image-binding column of some row holds a non-empty value whose file is not
\* under the image root.
NamesMissingImage(row) ==
  \E k \in 1..Len(row) :
    /\ Includes(ToLowerCase(row[k][1]), S_image)
    /\ row[k][2] # <<>>
    /\ PathJoin(IMAGE_DIR, row[k][2]) \notin {PathJoin(IMAGE_DIR, f) : f \in imageFiles}

SomeRowNamesMissingImage == \E r \in 1..Len(csvFile) : NamesMissingImage(csvFile[r])

EveryRowHasOutputDir ==
  \A r \in 1..Len(csvFile) : args.out # undefined \/ Get(csvFile[r], K_output) # <<>>

RowAssets(r) ==
  {scriptParts[r][k].arg :
     k \in {j \in 1..Len(scriptParts[r]) :
              /\ scriptParts[r][j].op = "ReplaceImage"
              /\ scriptParts[r][j].arg \in DOMAIN resizedFiles}}

\* The documents the compiled script of row r saves.
RowSavedDocs(r) ==
  {scriptParts[r][k].arg :
     k \in {j \in 1..Len(scriptParts[r]) : scriptParts[r][j].op = "SaveAs"}}

\* Two rows of the batch that differ in product_id or in the output column.
DistinctRows(r1, r2) ==
  /\ r1 # r2
  /\ \/ Get(csvFile[r1], K_product_id) # Get(csvFile[r2], K_product_id)
     \/ Get(csvFile[r1], K_output) # Get(csvFile[r2], K_output)

\* C5: once the batch script is written, any two distinct rows (rows of the same
\* product_id and different output columns among them) have no derived asset path
\* and no saved-document path in common, and every derived asset a row's
\* ReplaceImage instruction reads is the one made for that row.
C5_NoWriteCollisions ==
  scriptWritten =>
    \A r1 \in 1..Len(scriptParts) : \A r2 \in 1..Len(scriptParts) :
      DistinctRows(r1, r2) =>
        /\ RowAssets(r1) \cap RowAssets(r2) = {}
        /\ RowSavedDocs(r1) \cap RowSavedDocs(r2) = {}
        /\ \A p \in RowAssets(r1) : resizedFiles[p].row = r1

\* The columns of a row the compiler binds, and the instructions it bound them to.
BoundColumns(row) == SelectSeq(row, LAMBDA e : ~CompilerSkipsKey(e[1]))

ColumnInstrsOf(script) ==
  SelectSeq(script, LAMBDA ins : ins.op \in {"ReplaceImage", "SetNestedText", "SetDirectText"})

\* A literal that is well-formed and denotes text.
Denotes(literal, text) ==
  DecodeLiteral(literal).ok /\ DecodeLiteral(literal).value = text

\* C6: every literal emitted for a column name or a raw value is well-formed and
\* denotes the original: the required names in the pre-pass script, and in each
\* compiled row the slot name, the name in the alert and the text value of every
\* bound column; the rest of the row's script is well-formed as well.
C6_LiteralsEscaped ==
  /\ \A k \in 1..Len(prePassJsx.requiredLayers) :
       Denotes(prePassJsx.requiredLayers[k], getRequiredLayersFromData(csvFile)[k])
  /\ \A r \in 1..Len(scriptParts) :
       LET cols == BoundColumns(rows[r])
           ins == ColumnInstrsOf(scriptParts[r])
       IN /\ ScriptWellFormed(scriptParts[r])
          /\ Len(ins) = Len(cols)
          /\ \A k \in 1..Len(ins) :
               /\ Denotes(ins[k].slot, BindingTarget(cols[k][1]))
               /\ Denotes(ins[k].alert, BindingTarget(cols[k][1]))
               /\ ins[k].op # "ReplaceImage" => Denotes(ins[k].arg, cols[k][2])

\* C7: on a supported platform the wait on the host never lasts longer than the
\* timeout of the call: while main waits, the time waited is within it.
C7_WaitBoundedByTimeout ==
  (Waiting /\ Supported) => elapsed <= TimeoutSeconds

\* The binding the claim gives a column name: its kind and its target slot.
ClaimedKind(key) ==
  IF Includes(ToLowerCase(key), S_image) THEN "ReplaceImage"
  ELSE IF StartsWith(key, S_txt_) THEN "SetNestedText"
  ELSE "SetDirectText"

ClaimedTarget(key) ==
  IF ClaimedKind(key) = "SetNestedText" THEN Slice(key, 4) ELSE key

\* The columns of a CSV row that are not reserved (id, product_id, output).
NonReserved(row) == SelectSeq(row, LAMBDA e : e[1] \notin {K_id, K_product_id, K_output})

\* The slot names the compiled instructions of all rows look up.
LookedUpNames ==
  UNION {{DecodeLiteral(ColumnInstrsOf(scriptParts[r])[k].slot).value :
            k \in 1..Len(ColumnInstrsOf(scriptParts[r]))} :
         r \in 1..Len(scriptParts)}

\* C8: every non-reserved column of every compiled row has one instruction, of
\* the kind and for the target slot its name alone gives it, the required-slot
\* derivation gives the name the same target, and once every row is compiled the
\* required names are the slot names the compiled instructions look up.
C8_SameKindAndTarget ==
  /\ \A r \in 1..Len(scriptParts) :
       LET cols == NonReserved(csvFile[r])
           ins == ColumnInstrsOf(scriptParts[r])
       IN /\ Len(ins) = Len(cols)
          /\ \A k \in 1..Len(ins) :
               /\ ins[k].op = ClaimedKind(cols[k][1])
               /\ BindingTarget(cols[k][1]) = ClaimedTarget(cols[k][1])
               /\ RequiredLayerOf(cols[k][1]) = ClaimedTarget(cols[k][1])
               /\ ClaimedTarget(cols[k][1]) \in Range(getRequiredLayersFromData(csvFile))
  /\ scriptWritten => Range(getRequiredLayersFromData(csvFile)) = LookedUpNames

\* C9: once the pre-pass has written its reports the template file has not been
\* written back: the document was closed without saving.
C9_TemplateNotSaved ==
  validationFile # NoFile => ~templateSaved

\* ------------------------------------------- parseBoundsFile on its own
\* Report lines name=w,h: widths and heights written as whole numbers, with a
\* fraction, with letters after the digits, zero, negative, without a digit.
ReportNames == {K_Image, K_txt_Image}
ReportWidths == {<<"8">>, <<"8", ".", "5">>, <<"1", "2", "a", "b", "c">>,
                 <<"0">>, <<"-", "5">>, <<"a", "b", "c">>}
ReportHeights == {<<"6">>, <<"8", "0", "0", ".", "5">>}

ReportLine(name, w, h) == name \o <<"=">> \o w \o <<",">> \o h

ReportLines == {ReportLine(n, w, h) : n \in ReportNames, w \in ReportWidths, h \in ReportHeights}

\* The report's text: each line ended as the pre-pass ends it.
ReportText(lines) == Join(lines, <<CR>>) \o (IF lines = <<>> THEN <<>> ELSE <<CR>>)

ParseInit ==
  /\ boundsFile \in {ReportText(ls) : ls \in SeqsUpTo(ReportLines, MaxLines)}
  /\ platform = "darwin"
  /\ args = DefaultArgs
  /\ template = T_flat
  /\ csvFile = <<>>
  /\ imageFiles = {}
  /\ rows = <<>>
  /\ pc = "parse"
  /\ i = 0
  /\ exitCode = -1
  /\ log = {}
  /\ elapsed = 0
  /\ prePassJsx = [requiredLayers |-> <<>>]
  /\ validationFile = NoFile
  /\ templateSaved = FALSE
  /\ bounds = <<>>
  /\ scriptParts = <<>>
  /\ scriptFile = <<>>
  /\ scriptWritten = FALSE
  /\ tempCopies = <<>>
  /\ resizedFiles = <<>>
  /\ outDirs = {}
  /\ batchRuns = 0
  /\ host = HostIdle

\* main's call of parseBoundsFile on the report.
ParseBounds ==
  /\ pc = "parse"
  /\ bounds' = parseBoundsFile(boundsFile)
  /\ pc' = "parsed"
  /\ UNCHANGED <<inputs, host, rows, i, exitCode, log, elapsed, prePassJsx, boundsFile,
                 validationFile, templateSaved, scriptParts, scriptFile,
                 scriptWritten, tempCopies, resizedFiles, outDirs, batchRuns>>

ParseNext == ParseBounds

ParseSpec == ParseInit /\ [][ParseNext]_vars

\* A number written as a positive integer: digits only, not all of them 0.
WrittenAsPositiveInteger(s) ==
  /\ s # <<>>
  /\ \A k \in 1..Len(s) : IsDigit(s[k])
  /\ DigitsToNat(s, 0) > 0

\* The report has a line name=w,h with w and h both written as positive integers.
HasPositiveIntegerLine(name) ==
  \E w \in ReportWidths : \E h \in ReportHeights :
    /\ WrittenAsPositiveInteger(w)
    /\ WrittenAsPositiveInteger(h)
    /\ ReportLine(name, w, h) \in Range(SplitLines(boundsFile))

\* C10: after parseBoundsFile a name is in the BoundsMap iff the report has a
\* line for it whose width and height are both written as positive integers, so
\* a line with a fraction, with letters after the digits, or with a number that
\* is not above 0 puts nothing into the map and hides no well-formed line.
C10_OnlyPositiveIntegerLines ==
  pc = "parsed" =>
    \A name \in ReportNames :
      name \in DOMAIN bounds <=> HasPositiveIntegerLine(name)

\* The script cut into its rows: a row's sequence starts at its open instruction.
RECURSIVE RowSegmentsFrom(_, _)
RowSegmentsFrom(script, segs) ==
  IF script = <<>> THEN segs
  ELSE IF Head(script).op = "open" \/ segs = <<>>
  THEN RowSegmentsFrom(Tail(script), Append(segs, <<Head(script)>>))
  ELSE RowSegmentsFrom(Tail(script),
         [segs EXCEPT ![Len(segs)] = Append(@, Head(script))])

RowSegments(script) == RowSegmentsFrom(script, <<>>)

\* The document-scope directives of a script.
Directives(script) == SelectSeq(script, LAMBDA ins : ins.op = "#target photoshop")

\* The persisted script is the directive, once, then one sequence per input row,
\* the r-th being the one compiled for the r-th row of the input.
ScriptIsRowsInOrder ==
  /\ scriptFile # <<>>
  /\ scriptFile[1].op = "#target photoshop"
  /\ Len(Directives(scriptFile)) = 1
  /\ LET segs == IF Len(scriptFile) = 1 THEN <<>> ELSE RowSegments(Tail(scriptFile))
     IN /\ Len(segs) = Len(csvFile)
        /\ \A r \in 1..Len(segs) :
             /\ segs[r] = generateJSX(rows[r], TEMPLATE_NAME, args.size, args.width,
                                      args.height, OutputDir(csvFile[r], args.out))
             /\ \E k \in 1..Len(segs[r]) :
                  /\ segs[r][k].op = "SaveAs"
                  /\ segs[r][k].alert = Get(csvFile[r], K_product_id)
             /\ [k \in 1..Len(BoundColumns(csvFile[r])) |-> BoundColumns(csvFile[r])[k][1]]
                  = [k \in 1..Len(ColumnInstrsOf(segs[r])) |->
                       BoundColumns(rows[r])[k][1]]

\* C11: a written batch script is the document-scope directive, once, followed
\* by one instruction sequence per input row in the order of the input; nothing
\* is in the script file before it is written, it is written when every row has
\* been compiled, and it is never written again or changed afterwards.
C11_ScriptAssembledOnce ==
  /\ [](IF scriptWritten THEN ScriptIsRowsInOrder ELSE scriptFile = <<>>)
  /\ [][(~scriptWritten /\ scriptWritten')
          => (i > Len(rows) /\ Len(scriptParts) = Len(csvFile))]_vars
  /\ [][scriptWritten => (scriptWritten' /\ scriptFile' = scriptFile)]_vars

C11_Witness ==
  /\ scriptWritten
  /\ Len(csvFile) = 2
  /\ csvFile[1] # csvFile[2]
  /\ ScriptIsRowsInOrder

\* What the host's export descriptor holds after the directives are put into it
\* one after the other: a later put of a key replaces the earlier one.
EffectiveDescriptor(directives) ==
  [key \in {directives[k][1] : k \in 1..Len(directives)} |->
     LET last == CHOOSE k \in 1..Len(directives) :
                   /\ directives[k][1] = key
                   /\ \A j \in (k + 1)..Len(directives) : directives[j][1] # key
     IN DecodeLiteral(directives[last][2]).value]

\* The export instructions of the rows compiled so far.
ExportInstrs ==
  SelectSeq(Flatten(scriptParts), LAMBDA ins : ins.op = "ExportVideo")

\* C12: in every compiled row's export instruction, with a width and a height
\* both given the size selector in effect is customSize with that width and that
\* height; with either missing there is no customSize, width or height directive
\* and the selector is the named size as given.
C12_SizeSelection ==
  \A k \in 1..Len(ExportInstrs) :
    LET extra == ExportInstrs[k].extra
        eff == EffectiveDescriptor(extra)
    IN IF args.width # undefined /\ args.height # undefined
       THEN /\ eff["sizeSelector"] = <<"customSize">>
            /\ "width" \in DOMAIN eff /\ eff["width"] = args.width
            /\ "height" \in DOMAIN eff /\ eff["height"] = args.height
       ELSE /\ extra = << <<"sizeSelector", args.size>> >>
            /\ DOMAIN eff = {"sizeSelector"}

C12_Witness ==
  /\ Len(ExportInstrs) >= 1
  /\ args.width # undefined /\ args.height # undefined
  /\ args.size # <<"customSize">>
  /\ EffectiveDescriptor(ExportInstrs[1].extra)["sizeSelector"] = <<"customSize">>

\* The host was handed the batch script and did something with it.
HostRan == host.trace # <<>>

\* The instructions the claim speaks of: the column edits, the save, the export.
RowInstructionKinds ==
  {"ReplaceImage", "SetNestedText", "SetDirectText", "SaveAs", "ExportVideo"}

\* C13: when the host has run the batch script and the instruction that failed,
\* if any, is a column edit, a save or an export, then every instruction of the
\* script was executed, in the script's order, whatever alerts were raised on
\* the way; after a failed save the export of the same row was still executed.
C13_FailureIsolation ==
  (HostRan /\ (host.fail = 0 \/ scriptFile[host.fail].op \in RowInstructionKinds)) =>
    /\ ~host.aborted
    /\ Len(host.trace) = Len(scriptFile)
    /\ \A k \in 1..Len(host.trace) :
         /\ host.trace[k].index = k
         /\ host.trace[k].op = scriptFile[k].op
         /\ host.trace[k].result # "abort"
    /\ \A f \in 1..Len(host.trace) :
         (host.trace[f].op = "SaveAs" /\ host.trace[f].result = "alert") =>
           \E k \in (f + 1)..Len(host.trace) :
             /\ host.trace[k].row = host.trace[f].row
             /\ host.trace[k].op = "ExportVideo"
             /\ host.trace[k].result = "ok"

C13_Witness ==
  /\ HostRan
  /\ Len(csvFile) = 2
  /\ host.fail > 0
  /\ host.trace[host.fail].op = "SaveAs"
  /\ host.trace[host.fail].row = 1
  /\ host.trace[host.fail].result = "alert"
  /\ Len(host.trace) = Len(scriptFile)
  /\ host.trace[Len(host.trace)].row = 2

\* No two rows of the batch have the same product_id and output column.
AllRowsDistinct ==
  \A r1 \in 1..Len(csvFile) : \A r2 \in 1..Len(csvFile) :
    r1 # r2 => DistinctRows(r1, r2)

\* C14: when the host has run the script of a batch of distinct rows, the file
\* each row opened is not the template and not the file any other row opened,
\* its content when it was opened was the template with no edit made to it, and
\* no instruction wrote the template file.
C14_FreshCopyPerRow ==
  (HostRan /\ AllRowsDistinct) =>
    /\ \A k \in 1..Len(host.opened) :
         /\ host.opened[k].path # TEMPLATE_PATH
         /\ host.opened[k].content = <<>>
         /\ \A j \in 1..Len(host.opened) :
              j # k => host.opened[j].path # host.opened[k].path
    /\ TEMPLATE_PATH \notin DOMAIN host.files

\* The image-binding columns of the r-th compiled row, as positions among the
\* row's bound columns.
ImageColumns(r) ==
  {k \in 1..Len(BoundColumns(csvFile[r])) :
     Includes(ToLowerCase(BoundColumns(csvFile[r])[k][1]), S_image)}

\* The resize of a column succeeded: the slot has geometry, the source file is
\* there and it is an image the resizer reads.
ResizeSucceeded(key, value) ==
  /\ key \in DOMAIN bounds
  /\ PathResolve(IMAGE_DIR, value) \in {PathJoin(IMAGE_DIR, f) : f \in imageFiles}

\* C15: in every compiled row, an image column whose slot has no geometry in the
\* BoundsMap got a warning, kept its value and is compiled to a ReplaceImage of
\* the source path under the image root; an image column whose resize succeeded
\* had its value rewritten and is compiled to a ReplaceImage of the derived
\* asset that was written, made to the slot's geometry.
C15_ResizeOrKeep ==
  \A r \in 1..Len(scriptParts) : \A k \in ImageColumns(r) :
    LET key == BoundColumns(csvFile[r])[k][1]
        value == BoundColumns(csvFile[r])[k][2]
        ins == ColumnInstrsOf(scriptParts[r])[k]
        asset == ResizedImagePath(Get(csvFile[r], K_product_id), key)
    IN /\ ins.op = "ReplaceImage"
       /\ key \notin DOMAIN bounds =>
            /\ <<"No bounds found", r, key>> \in log
            /\ Get(rows[r], key) = value
            /\ Denotes(ins.arg, PathResolve(IMAGE_DIR, value))
            /\ asset \notin DOMAIN resizedFiles
       /\ ResizeSucceeded(key, value) =>
            /\ Get(rows[r], key) = PathRelative(IMAGE_DIR, asset)
            /\ Get(rows[r], key) # value
            /\ Denotes(ins.arg, asset)
            /\ asset \in DOMAIN resizedFiles
            /\ resizedFiles[asset].dim = bounds[key]

\* The text-capable slots of a nested document in slot-traversal order: depth
\* first, siblings in document order.
TextSlotsDepthFirst(nested) ==
  SelectSeq(VisitedLayers(nested), LAMBDA lyr : lyr.kind = "TEXT")

\* The nested-text instructions the host ran on a smart-object target without a
\* failure from outside the script.
NestedTextRuns ==
  {k \in 1..Len(host.trace) :
     /\ host.trace[k].op = "SetNestedText"
     /\ k # host.fail
     /\ FindLayersByName(template, DecodeLiteral(scriptFile[k].slot).value) # <<>>
     /\ FindLayersByName(template, DecodeLiteral(scriptFile[k].slot).value)[1].kind
          = "SMARTOBJECT"}

\* C16: every nested-text instruction the host ran wrote its value to the first
\* text-capable slot of the target's nested document in depth-first order, and
\* to that slot only; when the nested document has no text-capable slot it only
\* raised the warning, closed the nested document, and the row's save and export
\* were run after it.
C16_FirstTextSlotOnly ==
  \A k \in NestedTextRuns :
    LET target == FindLayersByName(template, DecodeLiteral(scriptFile[k].slot).value)[1]
        texts == TextSlotsDepthFirst(target.layers)
        e == host.trace[k]
    IN IF texts # <<>>
       THEN /\ e.result = "ok"
            /\ e.inner = texts[1].name
            /\ e.closed
       ELSE /\ e.result = "alert"
            /\ e.inner = <<>>
            /\ e.closed
            /\ \E s \in (k + 1)..Len(host.trace) :
                 host.trace[s].row = e.row /\ host.trace[s].op = "SaveAs"
            /\ \E x \in (k + 1)..Len(host.trace) :
                 host.trace[x].row = e.row /\ host.trace[x].op = "ExportVideo"

====
